---- MODULE Spec2Model ----
(***************************************************************************)
(* Model of backend/app/ws/ingest.py: the WebSocket audio ingestion        *)
(* handler ws_ingest, its in-memory registry _INGEST_STATS and the debug   *)
(* dump file.  One handler task per connection; a task runs atomically     *)
(* between two awaits (asyncio), so every action below is the code from    *)
(* one await to the next.                                                  *)
(***************************************************************************)
EXTENDS Integers, Sequences, FiniteSets, TLC

VARIABLES
    stats,      \* _INGEST_STATS: conn_id -> record (a dict that only the handlers write)
    pc,         \* per connection: where its ws_ingest task is suspended
    acks,       \* per connection: the texts passed to websocket.send_text, in call order
    delivered,  \* per connection: the send_text calls that returned normally
    received,   \* per connection: the ASGI events websocket.receive() has returned
    dump,       \* the file at _DEBUG_DUMP_PATH: whether it exists, bytes appended per connection
    now,        \* the value time.time() returns
    gone,       \* per connection: the client has closed its end
    unread,     \* messages that reached a connection whose task had stopped reading
    returned,   \* what ingest_stats() last returned to its caller
    seen        \* the registry contents a reader of a returned mapping last read

vars == <<stats, pc, acks, delivered, received, dump, now, gone, unread, returned, seen>>

----------------------------------------------------------------------------
(* Bounds of the model *)

MaxMsgs == 2          \* messages the first connection receives under Spec
MaxMsgsOther == 1     \* messages the second connection receives under Spec
MaxMsgsOne == 3       \* messages the connection receives under SpecOne
MaxTime == 2          \* the clock stops ticking there
MaxStray == 1         \* messages arriving after a task has stopped
MaxFramesLong == 45   \* binary frames of the first connection under SpecLong
MaxFramesOther == 1   \* binary frames of the second connection under SpecLong
MaxFramesSink == 21   \* binary frames of the connection under SpecSink

----------------------------------------------------------------------------
(* Values *)

Conns == {"c1", "c2"}

\* Python's None and a present value, for the optional fields.
None == <<>>
Some(x) == <<x>>

\* f"{websocket.client.host}:{websocket.client.port}" if websocket.client else "unknown"
Remote(c) == IF c = "c1" THEN "10.0.0.1:5000" ELSE "unknown"

AckEvery == 20

AckConnected == "ingest:connected"
AckInitOk == "ingest:init:ok"
AckUnknownText == "ingest:unknown_text"
AckNonJson == "ingest:text_non_json"

\* f"ingest:frames={n}"
FramesAck(n) == "ingest:frames=" \o ToString(n)

\* The close_reason tags.
ReasonDisconnect == "disconnect"
ReasonRuntime(exc) == "runtime:" \o exc
ReasonEvent == "event:disconnect"
ReasonError(exc) == "error:" \o exc

\* Exceptions the transport can raise.
RuntimeErrorAfterClose == "Cannot call \"receive\" once a disconnect message has been received."
ReceiveFaults == {"OSError()"}
SendFaults == {"OSError()"}
PeerGone == "WebSocketDisconnect()"

----------------------------------------------------------------------------
(* Text messages and json.loads *)

TextInitA == "{\"type\":\"init\",\"format\":\"audio/webm;codecs=opus\"}"
TextInitB == "{\"type\":\"init\",\"timeslice_ms\":500}"
TextOther == "{\"type\":\"ping\"}"
TextNoType == "{\"format\":\"audio/ogg\"}"
TextArray == "[1]"
TextNull == "null"
TextBad == "not json"

Texts == {TextInitA, TextInitB, TextOther, TextNoType, TextArray, TextNull, TextBad}

\* A parsed JSON value: its Python type and, for a dict, its items
\* (key, JSON text of the value).
JsonDict(items) == [kind |-> "dict", items |-> items]
JsonOther(kind) == [kind |-> kind, items |-> {}]

\* json.loads(text): the value, or JSONDecodeError.
JsonLoads(text) ==
    CASE text = TextInitA ->
           [ok |-> TRUE, value |-> JsonDict({<<"type", "\"init\"">>, <<"format", "\"audio/webm;codecs=opus\"">>})]
      [] text = TextInitB ->
           [ok |-> TRUE, value |-> JsonDict({<<"type", "\"init\"">>, <<"timeslice_ms", "500">>})]
      [] text = TextOther ->
           [ok |-> TRUE, value |-> JsonDict({<<"type", "\"ping\"">>})]
      [] text = TextNoType ->
           [ok |-> TRUE, value |-> JsonDict({<<"format", "\"audio/ogg\"">>})]
      [] text = TextArray -> [ok |-> TRUE, value |-> JsonOther("list")]
      [] text = TextNull -> [ok |-> TRUE, value |-> JsonOther("NoneType")]
      [] OTHER -> [ok |-> FALSE, value |-> JsonOther("NoneType")]

\* payload.get(key) exists on a dict only; elsewhere it raises AttributeError.
HasGet(payload) == payload.kind = "dict"

\* dict.get(key): the value, or None.
DictGet(payload, key) ==
    IF \E p \in payload.items : p[1] = key
    THEN Some((CHOOSE p \in payload.items : p[1] = key)[2])
    ELSE None

\* payload.get("type") == "init"
IsInit(payload) == DictGet(payload, "type") = Some("\"init\"")

----------------------------------------------------------------------------
(* ASGI events returned by websocket.receive() *)

FrameLens == {0, 3}

TextMsg(t) == [type |-> "websocket.receive", text |-> Some(t), bytes |-> None]
BytesMsg(n) == [type |-> "websocket.receive", text |-> None, bytes |-> Some(n)]
BothMsg(t, n) == [type |-> "websocket.receive", text |-> Some(t), bytes |-> Some(n)]
EmptyMsg == [type |-> "websocket.receive", text |-> None, bytes |-> None]
DisconnectMsg == [type |-> "websocket.disconnect", text |-> None, bytes |-> None]

\* How lines 109-129 classify an event: a disconnect first, then text, then bytes.
IsText(m) == m.type = "websocket.receive" /\ m.text # None
IsFrame(m) == m.type = "websocket.receive" /\ m.text = None /\ m.bytes # None

Messages ==
    {TextMsg(t) : t \in Texts} \cup {BytesMsg(n) : n \in FrameLens}
    \cup {BothMsg(TextBad, 3), EmptyMsg, DisconnectMsg}

----------------------------------------------------------------------------
(* The record of one connection *)

\* A variant whose init starts as an empty dict instead of None.
NewRecordInitEmpty(c, t) ==
    [total_bytes |-> 0,
     frames_received |-> 0,
     init |-> Some(JsonDict({})),
     started_at |-> t,
     last_message_at |-> None,
     closed |-> FALSE,
     close_reason |-> None,
     remote |-> Remote(c)]

\* Lines 63-73.
NewRecord(c, t) ==
    [total_bytes |-> 0,
     frames_received |-> 0,
     init |-> None,
     started_at |-> t,
     last_message_at |-> None,
     closed |-> FALSE,
     close_reason |-> None,
     remote |-> Remote(c)]

\* _INGEST_STATS[conn_id]["closed"] = True; ["close_reason"] = reason
MarkClosed(rec, reason) ==
    [rec EXCEPT !.closed = TRUE, !.close_reason = Some(reason)]

\* A variant that stamps the first message only.
TouchOnce(rec, t) ==
    IF rec.last_message_at = None THEN [rec EXCEPT !.last_message_at = Some(t)] ELSE rec

\* _INGEST_STATS[conn_id]["last_message_at"] = time.time()
Touch(rec, t) == [rec EXCEPT !.last_message_at = Some(t)]

\* A variant that merges the new payload into the stored one (dict.update).
StoreInitMerged(rec, payload) ==
    IF rec.init = None
    THEN [rec EXCEPT !.init = Some(payload)]
    ELSE [rec EXCEPT !.init = Some(JsonDict(
             payload.items \cup
             {p \in rec.init[1].items : \A q \in payload.items : q[1] # p[1]}))]

\* A variant in which an init message starts the stream over: the counters go
\* back to zero.
StoreInitRestarts(rec, payload) ==
    [rec EXCEPT !.init = Some(payload), !.total_bytes = 0, !.frames_received = 0]

\* _INGEST_STATS[conn_id]["init"] = payload
StoreInit(rec, payload) == [rec EXCEPT !.init = Some(payload)]

\* A variant that skips empty chunks (a truthiness test in place of "is not None").
CountFrameSkipsEmpty(rec, len) ==
    [rec EXCEPT !.total_bytes = @ + len,
                !.frames_received = @ + (IF len = 0 THEN 0 ELSE 1)]

\* total_bytes += len(chunk); frames_received += 1
CountFrame(rec, len) ==
    [rec EXCEPT !.total_bytes = @ + len, !.frames_received = @ + 1]

\* A variant that acknowledges every frame from the 20th on.
AckDueFromTwentieth(rec) == rec.frames_received >= AckEvery

\* frames_received % 20 == 0
AckDue(rec) == rec.frames_received % AckEvery = 0

----------------------------------------------------------------------------
(* One pass of the receive loop on a returned event, up to the next await   *)
(* (lines 105-146).  The result: the record, where the task is next, the    *)
(* text it passes to send_text (if any) and the chunk it appends to the     *)
(* debug dump (if any).                                                     *)

Outcome(rec, next, ack, chunk) ==
    [rec |-> rec, next |-> next, ack |-> ack, chunk |-> chunk]

\* A variant without the "except json.JSONDecodeError" clause.
OnTextNoCatch(rec, text) ==
    LET r == JsonLoads(text) IN
    IF ~r.ok
    THEN Outcome(MarkClosed(rec, ReasonError("JSONDecodeError")), "closing", None, None)
    ELSE IF ~HasGet(r.value)
    THEN Outcome(MarkClosed(rec, ReasonError("AttributeError")), "closing", None, None)
    ELSE IF IsInit(r.value)
    THEN Outcome(StoreInit(rec, r.value), "send_ack", Some(AckInitOk), None)
    ELSE Outcome(rec, "send_ack", Some(AckUnknownText), None)

\* Lines 116-126: a text message.
OnText(rec, text) ==
    LET r == JsonLoads(text) IN
    IF ~r.ok
    THEN Outcome(rec, "send_ack", Some(AckNonJson), None)
    ELSE IF ~HasGet(r.value)
    THEN \* AttributeError is no JSONDecodeError: it reaches the outer handler
         Outcome(MarkClosed(rec, ReasonError("AttributeError")), "closing", None, None)
    ELSE IF IsInit(r.value)
    THEN Outcome(StoreInit(rec, r.value), "send_ack", Some(AckInitOk), None)
    ELSE Outcome(rec, "send_ack", Some(AckUnknownText), None)

\* A variant that announces the twentieth frame before counting it: when the
\* acknowledgement goes out the record still has the count before the frame.
OnBytesAcksAhead(rec, len) ==
    LET counted == CountFrame(rec, len) IN
    IF AckDue(counted)
    THEN Outcome(rec, "send_ack", Some(FramesAck(counted.frames_received)), Some(len))
    ELSE Outcome(counted, "receive", None, Some(len))

\* Lines 129-146: a binary message.
OnBytes(rec, len) ==
    LET counted == CountFrame(rec, len) IN
    IF AckDue(counted)
    THEN Outcome(counted, "send_ack", Some(FramesAck(counted.frames_received)), Some(len))
    ELSE Outcome(counted, "receive", None, Some(len))

\* A variant whose disconnect branch lacks the "break".
OnMessageNoBreak(rec, m, t) ==
    LET touched == Touch(rec, t) IN
    IF m.type = "websocket.disconnect"
    THEN Outcome(MarkClosed(touched, ReasonEvent), "receive", None, None)
    ELSE IF m.text # None
    THEN OnText(touched, m.text[1])
    ELSE IF m.bytes # None
    THEN OnBytes(touched, m.bytes[1])
    ELSE Outcome(touched, "receive", None, None)

\* A variant that tests the bytes part before the text part.
OnMessageBytesFirst(rec, m, t) ==
    LET touched == Touch(rec, t) IN
    IF m.type = "websocket.disconnect"
    THEN Outcome(MarkClosed(touched, ReasonEvent), "done", None, None)
    ELSE IF m.bytes # None
    THEN OnBytes(touched, m.bytes[1])
    ELSE IF m.text # None
    THEN OnText(touched, m.text[1])
    ELSE Outcome(touched, "receive", None, None)

\* Lines 105-146.
OnMessage(rec, m, t) ==
    LET touched == Touch(rec, t) IN
    IF m.type = "websocket.disconnect"
    THEN Outcome(MarkClosed(touched, ReasonEvent), "done", None, None)
    ELSE IF m.text # None
    THEN OnText(touched, m.text[1])
    ELSE IF m.bytes # None
    THEN OnBytes(touched, m.bytes[1])
    ELSE Outcome(touched, "receive", None, None)

\* open(_DEBUG_DUMP_PATH, "ab").write(chunk), or the file as it was when that fails.
DumpAppend(d, c, len, ok) ==
    IF ok
    THEN [exists |-> TRUE, bytes |-> [d.bytes EXCEPT ![c] = @ + len]]
    ELSE d

\* os.remove(_DEBUG_DUMP_PATH) when the file exists, or the file as it was when that fails.
DumpReset(d, ok) ==
    IF d.exists /\ ok
    THEN [exists |-> FALSE, bytes |-> [c \in Conns |-> 0]]
    ELSE d

----------------------------------------------------------------------------
(* Actions *)

Stopped(c) == pc[c] \in {"done", "escaped"}
Live(c) == pc[c] \in {"send_connected", "receive", "send_ack"}

\* What a failing send raises: the peer-gone error once the client has closed,
\* another fault before.
SendRaises(c) == IF gone[c] THEN {PeerGone} ELSE SendFaults

\* The client closes its end while the task is running.
ClientGone(c) ==
    /\ Live(c)
    /\ ~gone[c]
    /\ gone' = [gone EXCEPT ![c] = TRUE]
    /\ UNCHANGED <<stats, pc, acks, delivered, received, dump, now, unread, returned, seen>>

\* Accept with a registry that drops the closed records when it inserts one.
AcceptEvictsClosed(c) ==
    /\ pc[c] = "idle"
    /\ stats' = [x \in {y \in DOMAIN stats : ~stats[y].closed} \cup {c} |->
                    IF x = c THEN NewRecord(c, now) ELSE stats[x]]
    /\ acks' = [acks EXCEPT ![c] = Append(@, AckConnected)]
    /\ pc' = [pc EXCEPT ![c] = "send_connected"]
    /\ UNCHANGED <<delivered, received, dump, now, gone, unread, returned, seen>>

\* Lines 62-76: accept() returned; the record is inserted and send_text starts.
Accept(c) ==
    /\ pc[c] = "idle"
    /\ stats' = [x \in DOMAIN stats \cup {c} |->
                    IF x = c THEN NewRecord(c, now) ELSE stats[x]]
    /\ acks' = [acks EXCEPT ![c] = Append(@, AckConnected)]
    /\ pc' = [pc EXCEPT ![c] = "send_connected"]
    /\ UNCHANGED <<delivered, received, dump, now, gone, unread, returned, seen>>

\* Line 62: accept() raises; nothing catches it.
AcceptFail(c) ==
    /\ pc[c] = "idle"
    /\ pc' = [pc EXCEPT ![c] = "escaped"]
    /\ UNCHANGED <<stats, acks, delivered, received, dump, now, gone, unread, returned, seen>>

\* Lines 76-85: the first send returned; the debug dump is reset.
SendConnectedOk(c, rmOk) ==
    /\ pc[c] = "send_connected"
    /\ delivered' = [delivered EXCEPT ![c] = Append(@, AckConnected)]
    /\ dump' = DumpReset(dump, rmOk)
    /\ pc' = [pc EXCEPT ![c] = "receive"]
    /\ UNCHANGED <<stats, acks, received, now, gone, unread, returned, seen>>

\* Line 76: the first send raises, outside any try.
SendConnectedFail(c) ==
    /\ pc[c] = "send_connected"
    /\ pc' = [pc EXCEPT ![c] = "escaped"]
    /\ UNCHANGED <<stats, acks, delivered, received, dump, now, gone, unread, returned, seen>>

\* Lines 92-97: receive() raises WebSocketDisconnect.
ReceiveDisconnect(c) ==
    /\ pc[c] = "receive"
    /\ gone[c]
    /\ stats' = [stats EXCEPT ![c] = MarkClosed(@, ReasonDisconnect)]
    /\ pc' = [pc EXCEPT ![c] = "done"]
    /\ UNCHANGED <<acks, delivered, received, dump, now, gone, unread, returned, seen>>

\* Lines 98-103: receive() raises RuntimeError.
ReceiveRuntimeError(c) ==
    /\ pc[c] = "receive"
    /\ gone[c]
    /\ stats' = [stats EXCEPT ![c] = MarkClosed(@, ReasonRuntime(RuntimeErrorAfterClose))]
    /\ pc' = [pc EXCEPT ![c] = "done"]
    /\ UNCHANGED <<acks, delivered, received, dump, now, gone, unread, returned, seen>>

\* Lines 91, 148-154: receive() raises anything else.
ReceiveFault(c, exc) ==
    /\ pc[c] = "receive"
    /\ ~gone[c]
    /\ stats' = [stats EXCEPT ![c] = MarkClosed(@, ReasonError(exc))]
    /\ pc' = [pc EXCEPT ![c] = "closing"]
    /\ UNCHANGED <<acks, delivered, received, dump, now, gone, unread, returned, seen>>

\* The pass with no try around the write to the dump: a failing write is a fault
\* of the pass, raised after the counters were updated.
AfterDumpRaises(o, ok) ==
    IF o.chunk # None /\ ~ok
    THEN Outcome(MarkClosed(o.rec, ReasonError("OSError()")), "closing", None, o.chunk)
    ELSE o

\* Lines 134-140: the write to the dump sits in its own try, whose except only
\* logs; the pass goes on the same whether the write succeeded or not.
AfterDump(o, ok) == o

\* Lines 91, 105-151: what one pass of the loop does with the message m.
Handle(c, m, sinkOk) ==
    /\ pc[c] = "receive"
    /\ gone[c] <=> m = DisconnectMsg
    /\ LET o == AfterDump(OnMessage(stats[c], m, now), sinkOk) IN
          /\ stats' = [stats EXCEPT ![c] = o.rec]
          /\ pc' = [pc EXCEPT ![c] = o.next]
          /\ acks' = IF o.ack = None THEN acks
                     ELSE [acks EXCEPT ![c] = Append(@, o.ack[1])]
          /\ dump' = IF o.chunk = None THEN dump
                     ELSE DumpAppend(dump, c, o.chunk[1], sinkOk)
    /\ received' = [received EXCEPT ![c] = Append(@, m)]
    /\ UNCHANGED <<delivered, now, gone, unread>>

\* A variant with one lock for all connections, held from the receipt of a
\* message until its acknowledgement is out: no pass starts while another
\* connection is inside a send_text.
ReceiveMessageSerialized(c, m, sinkOk) ==
    /\ \A d \in Conns \ {c} : pc[d] \notin {"send_connected", "send_ack"}
    /\ Handle(c, m, sinkOk)
    /\ UNCHANGED <<returned, seen>>

\* Lines 91, 105-146: receive() returns m and the loop body runs to its next await.
ReceiveMessage(c, m, sinkOk) ==
    /\ Handle(c, m, sinkOk)
    /\ UNCHANGED <<returned, seen>>

\* Lines 121-125, 144: send_text returned; the loop goes back to receive().
SendAckOk(c) ==
    /\ pc[c] = "send_ack"
    /\ delivered' = [delivered EXCEPT ![c] = Append(@, acks[c][Len(acks[c])])]
    /\ pc' = [pc EXCEPT ![c] = "receive"]
    /\ UNCHANGED <<stats, acks, received, dump, now, gone, unread, returned, seen>>

\* Lines 121-125, 144, 148-154: send_text raises; the outer handler takes it.
SendAckFail(c, exc) ==
    /\ pc[c] = "send_ack"
    /\ exc \in SendRaises(c)
    /\ stats' = [stats EXCEPT ![c] = MarkClosed(@, ReasonError(exc))]
    /\ pc' = [pc EXCEPT ![c] = "closing"]
    /\ UNCHANGED <<acks, delivered, received, dump, now, gone, unread, returned, seen>>

\* Lines 153-156: websocket.close() returns or raises; either way the task ends.
Close(c) ==
    /\ pc[c] = "closing"
    /\ pc' = [pc EXCEPT ![c] = "done"]
    /\ UNCHANGED <<stats, acks, delivered, received, dump, now, gone, unread, returned, seen>>

\* A message reaches the transport of a connection whose task has stopped: nothing reads it.
Stray(c) ==
    /\ Stopped(c)
    /\ unread < MaxStray
    /\ unread' = unread + 1
    /\ UNCHANGED <<stats, pc, acks, delivered, received, dump, now, gone, returned, seen>>

\* Lines 33-43: ingest_stats() returns. What it returns is the module-level dict
\* itself, so the caller holds the registry the handlers keep writing.
Registry == "_INGEST_STATS"
Contents(ref) == stats

IngestStats ==
    /\ returned' = Some(Registry)
    /\ UNCHANGED <<stats, pc, acks, delivered, received, dump, now, gone, unread, seen>>

\* The caller (the framework encoding the response) reads the mapping it was given
\* while no handler is inside a step.
ReadResult ==
    /\ returned # None
    /\ seen' = Some(Contents(returned[1]))
    /\ UNCHANGED <<stats, pc, acks, delivered, received, dump, now, gone, unread, returned>>

\* The order in which one pass of the loop assigns the fields of its record
\* (lines 105, 120, 131, 132, then 110-111 or 150-151), and the record after the
\* first k of these assignments.
FieldOrder ==
    <<"last_message_at", "init", "total_bytes", "frames_received", "closed", "close_reason">>

Partly(before, after, k) ==
    [f \in DOMAIN before |->
        IF \E i \in 1..k : FieldOrder[i] = f THEN after[f] ELSE before[f]]

\* ingest_stats is a plain def route: it and the reading of its result run on a
\* worker thread, beside the event-loop thread that runs the handlers, and no
\* lock guards the registry. The reader looks while a handler is between two
\* assignments of a loop pass.
ReadDuring(c, m, sinkOk) ==
    /\ returned # None
    /\ Handle(c, m, sinkOk)
    /\ \E k \in 1..(Len(FieldOrder) - 1) :
          seen' = Some([stats EXCEPT ![c] = Partly(stats[c], stats'[c], k)])
    /\ UNCHANGED returned

\* time.time() advances.
Tick ==
    /\ now < MaxTime
    /\ now' = now + 1
    /\ UNCHANGED <<stats, pc, acks, delivered, received, dump, gone, unread, returned, seen>>

----------------------------------------------------------------------------
(* Specifications *)

Init ==
    /\ stats = << >>
    /\ pc = [c \in Conns |-> "idle"]
    /\ acks = [c \in Conns |-> << >>]
    /\ delivered = [c \in Conns |-> << >>]
    /\ received = [c \in Conns |-> << >>]
    /\ dump \in {[exists |-> e, bytes |-> [c \in Conns |-> 0]] : e \in BOOLEAN}
    /\ now = 0
    /\ gone = [c \in Conns |-> FALSE]
    /\ unread = 0
    /\ returned = None
    /\ seen = None

\* Two connections, every kind of message, every fault; few messages, a clock that stands.
Budget(c) == IF c = "c1" THEN MaxMsgs ELSE MaxMsgsOther

Next ==
    \/ \E c \in Conns : Accept(c)
    \/ \E c \in Conns : AcceptFail(c)
    \/ \E c \in Conns : ClientGone(c)
    \/ \E c \in Conns, rmOk \in BOOLEAN : SendConnectedOk(c, rmOk)
    \/ \E c \in Conns : SendConnectedFail(c)
    \/ \E c \in Conns : ReceiveDisconnect(c)
    \/ \E c \in Conns : ReceiveRuntimeError(c)
    \/ \E c \in Conns, exc \in ReceiveFaults : ReceiveFault(c, exc)
    \/ \E c \in Conns, m \in Messages, sinkOk \in BOOLEAN :
          Len(received[c]) < Budget(c) /\ ReceiveMessage(c, m, sinkOk)
    \/ \E c \in Conns : SendAckOk(c)
    \/ \E c \in Conns, exc \in SendFaults \cup {PeerGone} : SendAckFail(c, exc)
    \/ \E c \in Conns : Close(c)
    \/ \E c \in Conns : Stray(c)

Spec == Init /\ [][Next]_vars

\* One connection streams many frames of one size, with its init message at any
\* point (at most once); the other sends a few frames; every append to the debug
\* dump fails (its directory is missing).
LongFrameLens == {1000}
LongTexts == {TextInitA}

FramesIn(h) == Cardinality({i \in 1..Len(h) : IsFrame(h[i])})
Seen(h, m) == \E i \in 1..Len(h) : h[i] = m

LongFrames(c) == IF c = "c1" THEN MaxFramesLong ELSE MaxFramesOther

LongMessages(c) ==
    {BytesMsg(n) : n \in IF FramesIn(received[c]) < LongFrames(c) THEN LongFrameLens ELSE {}}
    \cup {TextMsg(t) : t \in IF c = "c1"
                             THEN {x \in LongTexts : ~Seen(received[c], TextMsg(x))}
                             ELSE {}}
    \cup {DisconnectMsg}

NextLong ==
    \/ \E c \in Conns : Accept(c)
    \/ \E c \in Conns : AcceptFail(c)
    \/ \E c \in Conns : ClientGone(c)
    \/ \E c \in Conns, rmOk \in BOOLEAN : SendConnectedOk(c, rmOk)
    \/ \E c \in Conns : SendConnectedFail(c)
    \/ \E c \in Conns : ReceiveDisconnect(c)
    \/ \E c \in Conns : ReceiveRuntimeError(c)
    \/ \E c \in Conns, exc \in ReceiveFaults : ReceiveFault(c, exc)
    \/ \E c \in Conns : \E m \in LongMessages(c) : ReceiveMessage(c, m, FALSE)
    \/ \E c \in Conns : SendAckOk(c)
    \/ \E c \in Conns, exc \in SendFaults \cup {PeerGone} : SendAckFail(c, exc)
    \/ \E c \in Conns : Close(c)

SpecLong == Init /\ [][NextLong]_vars

\* One connection alone, every kind of message, every fault; longer sequences.
NextOne ==
    \/ Accept("c1")
    \/ AcceptFail("c1")
    \/ ClientGone("c1")
    \/ \E rmOk \in BOOLEAN : SendConnectedOk("c1", rmOk)
    \/ SendConnectedFail("c1")
    \/ ReceiveDisconnect("c1")
    \/ ReceiveRuntimeError("c1")
    \/ \E exc \in ReceiveFaults : ReceiveFault("c1", exc)
    \/ \E m \in Messages, sinkOk \in BOOLEAN :
          Len(received["c1"]) < MaxMsgsOne /\ ReceiveMessage("c1", m, sinkOk)
    \/ SendAckOk("c1")
    \/ \E exc \in SendFaults \cup {PeerGone} : SendAckFail("c1", exc)
    \/ Close("c1")
    \/ Stray("c1")

SpecOne == Init /\ [][NextOne]_vars

\* The awaits of one task that complete without the client sending anything
\* more: a send_text or close() in progress returns or raises, and receive() on
\* a connection whose client has closed reports it.
Ready(c) ==
    \/ \E rmOk \in BOOLEAN : SendConnectedOk(c, rmOk)
    \/ SendConnectedFail(c)
    \/ ReceiveDisconnect(c)
    \/ ReceiveRuntimeError(c)
    \/ SendAckOk(c)
    \/ \E exc \in SendFaults \cup {PeerGone} : SendAckFail(c, exc)
    \/ Close(c)

\* One connection alone, its task scheduled fairly by the event loop.
SpecFair == Init /\ [][NextOne]_vars /\ WF_vars(Ready("c1"))

\* One connection streams frames of one size; each append to the debug dump may
\* succeed or fail.
NextSink ==
    \/ Accept("c1")
    \/ AcceptFail("c1")
    \/ ClientGone("c1")
    \/ \E rmOk \in BOOLEAN : SendConnectedOk("c1", rmOk)
    \/ SendConnectedFail("c1")
    \/ ReceiveDisconnect("c1")
    \/ ReceiveRuntimeError("c1")
    \/ \E exc \in ReceiveFaults : ReceiveFault("c1", exc)
    \/ \E n \in LongFrameLens, sinkOk \in BOOLEAN :
          FramesIn(received["c1"]) < MaxFramesSink /\ ReceiveMessage("c1", BytesMsg(n), sinkOk)
    \/ SendAckOk("c1")
    \/ \E exc \in SendFaults \cup {PeerGone} : SendAckFail("c1", exc)
    \/ Close("c1")

SpecSink == Init /\ [][NextSink]_vars

\* One connection alone with a clock that advances between the steps: one
\* message of each kind, every fault.
ClockMessages ==
    {TextMsg(TextInitA), TextMsg(TextBad), BytesMsg(3), EmptyMsg, DisconnectMsg}

NextClock ==
    \/ Accept("c1")
    \/ AcceptFail("c1")
    \/ ClientGone("c1")
    \/ \E rmOk \in BOOLEAN : SendConnectedOk("c1", rmOk)
    \/ SendConnectedFail("c1")
    \/ ReceiveDisconnect("c1")
    \/ ReceiveRuntimeError("c1")
    \/ \E exc \in ReceiveFaults : ReceiveFault("c1", exc)
    \/ \E m \in ClockMessages :
          Len(received["c1"]) < MaxMsgs /\ ReceiveMessage("c1", m, FALSE)
    \/ SendAckOk("c1")
    \/ \E exc \in SendFaults \cup {PeerGone} : SendAckFail("c1", exc)
    \/ Close("c1")
    \/ Tick

SpecClock == Init /\ [][NextClock]_vars

\* Two connections and the stats route: one message of each main kind, every
\* fault, and callers of ingest_stats() reading what they were given; every
\* append to the debug dump fails, as under SpecLong.
StatsMessages == {BytesMsg(3), TextMsg(TextInitA), DisconnectMsg}

NextStats ==
    \/ \E c \in Conns : Accept(c)
    \/ \E c \in Conns : AcceptFail(c)
    \/ \E c \in Conns : ClientGone(c)
    \/ \E c \in Conns, rmOk \in BOOLEAN : SendConnectedOk(c, rmOk)
    \/ \E c \in Conns : SendConnectedFail(c)
    \/ \E c \in Conns : ReceiveDisconnect(c)
    \/ \E c \in Conns : ReceiveRuntimeError(c)
    \/ \E c \in Conns, exc \in ReceiveFaults : ReceiveFault(c, exc)
    \/ \E c \in Conns, m \in StatsMessages :
          Len(received[c]) < Budget(c) /\ ReceiveMessage(c, m, FALSE)
    \/ \E c \in Conns : SendAckOk(c)
    \/ \E c \in Conns, exc \in SendFaults \cup {PeerGone} : SendAckFail(c, exc)
    \/ \E c \in Conns : Close(c)
    \/ IngestStats
    \/ ReadResult
    \/ \E c \in Conns, m \in StatsMessages :
          Len(received[c]) < Budget(c) /\ ReadDuring(c, m, FALSE)

SpecStats == Init /\ [][NextStats]_vars

----------------------------------------------------------------------------
(* Properties *)

RECURSIVE SumBytes(_)
SumBytes(h) ==
    IF h = << >> THEN 0
    ELSE (IF IsFrame(Head(h)) THEN Head(h).bytes[1] ELSE 0) + SumBytes(Tail(h))

\* The acknowledgements that are none of the four fixed tokens.
IsFramesAck(a) == a \notin {AckConnected, AckInitOk, AckUnknownText, AckNonJson}

\* What send_text was called with during the step, per connection.
NewAcks(c) == SubSeq(acks'[c], Len(acks[c]) + 1, Len(acks'[c]))

\* The messages the client sent, without the transport's disconnect event.
ClientSent(c) == SelectSeq(received[c], LAMBDA m : m.type = "websocket.receive")

\* C1: for every connection, after any sequence of received messages,
\* total_bytes is the sum of the lengths of the binary frames received so far
\* and frames_received is their number.
C1_CountersExact ==
    \A c \in DOMAIN stats :
        /\ stats[c].total_bytes = SumBytes(received[c])
        /\ stats[c].frames_received = FramesIn(received[c])

\* C1 witness: an empty frame, a text message and a 3-byte frame, no init before them.
C1_Witness ==
    \E c \in DOMAIN stats :
        /\ Len(received[c]) = 3
        /\ received[c][1] = BytesMsg(0)
        /\ IsText(received[c][2])
        /\ received[c][3] = BytesMsg(3)
        /\ stats[c].init = None
        /\ stats[c].total_bytes = 3
        /\ stats[c].frames_received = 2

\* C2: in every step and for every connection, send_text is called with an
\* "ingest:frames=N" text exactly when that connection's frames_received has
\* just become N, a positive multiple of 20, and then once, with that N.
C2_FramesAckStep ==
    \A c \in Conns :
        LET before == IF c \in DOMAIN stats THEN stats[c].frames_received ELSE 0
            after == IF c \in DOMAIN stats' THEN stats'[c].frames_received ELSE 0
            due == after # before /\ after > 0 /\ after % 20 = 0
        IN  SelectSeq(NewAcks(c), IsFramesAck)
              = IF due THEN << "ingest:frames=" \o ToString(after) >> ELSE << >>

\* C2, of every step: a frames ack is sent if and only if the connection's own
\* frames_received has just become its N, a positive multiple of 20.
C2_FramesAckIff == [][C2_FramesAckStep]_vars

\* C2 witness: the first connection has had its 40th frame and both acks, with a
\* text message among its frames, while the other connection has frames of its own.
C2_Witness ==
    /\ DOMAIN stats = Conns
    /\ stats["c1"].frames_received = 40
    /\ SelectSeq(acks["c1"], IsFramesAck) = << "ingest:frames=20", "ingest:frames=40" >>
    /\ \E i \in 1..Len(received["c1"]) : IsText(received["c1"][i])
    /\ stats["c2"].frames_received >= 1
    /\ SelectSeq(acks["c2"], IsFramesAck) = << >>

\* C3: the scenario init, 45 frames of 1000 bytes, disconnect ends with
\* total_bytes 45000, frames_received 45, init the init object, closed with
\* close_reason "disconnect", and exactly the acks frames=20 and frames=40.
Scenario == << TextMsg(TextInitA) >> \o [i \in 1..45 |-> BytesMsg(1000)]

C3_Scenario ==
    \A c \in DOMAIN stats :
        (/\ gone[c]
         /\ pc[c] = "done"
         /\ ClientSent(c) = Scenario
         /\ delivered[c] = acks[c])
        => /\ stats[c].total_bytes = 45000
           /\ stats[c].frames_received = 45
           /\ stats[c].init = Some(JsonDict({<<"type", "\"init\"">>,
                                            <<"format", "\"audio/webm;codecs=opus\"">>}))
           /\ stats[c].closed
           /\ stats[c].close_reason = Some("disconnect")
           /\ SelectSeq(delivered[c], IsFramesAck)
                = << "ingest:frames=20", "ingest:frames=40" >>

\* C4: every termination caused by the client going away, however the
\* transport reports it, leaves the record closed with close_reason "disconnect".
C4_GoneIsDisconnect ==
    \A c \in DOMAIN stats :
        (gone[c] /\ Stopped(c))
        => stats[c].closed /\ stats[c].close_reason = Some("disconnect")

\* C5: whenever a connection's handler has stopped, for any reason, after its
\* record was created, the record is closed with a non-empty close_reason.
C5_StoppedIsClosed ==
    \A c \in DOMAIN stats :
        Stopped(c)
        => stats[c].closed /\ stats[c].close_reason \notin {None, Some("")}

\* C6: no fault raised while a connection is handled (its record exists)
\* leaves its handler: the handler ends normally.
C6_NoFaultEscapes ==
    \A c \in DOMAIN stats : pc[c] # "escaped"

\* The step in which receive() returns m on connection c.
Receives(c, m) == received'[c] = Append(received[c], m)

\* Every field but last_message_at is as before the step.
OnlyTouched(c) ==
    [stats'[c] EXCEPT !.last_message_at = stats[c].last_message_at] = stats[c]

Malformed(m) == IsText(m) /\ ~JsonLoads(m.text[1]).ok
ParsedInit(m) ==
    IsText(m) /\ JsonLoads(m.text[1]).ok /\ JsonLoads(m.text[1]).value.kind = "dict"
    /\ <<"type", "\"init\"">> \in JsonLoads(m.text[1]).value.items
ParsedOther(m) == IsText(m) /\ JsonLoads(m.text[1]).ok /\ ~ParsedInit(m)

\* The task is sending the ack of the message it received last, and that was m-like.
Acking(c, P(_)) ==
    /\ pc[c] = "send_ack"
    /\ received[c] # << >>
    /\ P(received[c][Len(received[c])])

\* The receipt of a malformed text: only last_message_at changes, one
\* "ingest:text_non_json" is sent, the record stays open.
C7_Receipt(c) ==
    \A m \in Messages :
        (Malformed(m) /\ Receives(c, m))
        => /\ OnlyTouched(c)
           /\ stats'[c].last_message_at = Some(now)
           /\ ~stats'[c].closed
           /\ NewAcks(c) = << AckNonJson >>

\* C7 as stated: a malformed text message changes only last_message_at, has
\* exactly one "ingest:text_non_json" sent for it and no other ack, and the
\* connection is open, reading again, once its handling is over.
C7_OriginalStep ==
    \A c \in DOMAIN stats :
        /\ C7_Receipt(c)
        /\ (Acking(c, Malformed) /\ pc'[c] # pc[c])
           => /\ stats'[c] = stats[c]
              /\ NewAcks(c) = << >>
              /\ pc'[c] = "receive"

\* C7 as stated, of every step: a malformed text changes only last_message_at,
\* gets one "ingest:text_non_json" and leaves the connection open.
C7_Original == [][C7_OriginalStep]_vars

\* C7 amended: the same, the connection being open again provided the send of
\* the ack returns; when that send raises, the record is closed with an
\* "error:" reason and the task stops, counters and init still unchanged.
C7_AmendedStep ==
    \A c \in DOMAIN stats :
        /\ C7_Receipt(c)
        /\ (Acking(c, Malformed) /\ pc'[c] # pc[c])
           => /\ NewAcks(c) = << >>
              /\ IF delivered'[c] # delivered[c]
                 THEN /\ stats'[c] = stats[c]
                      /\ delivered'[c] = Append(delivered[c], AckNonJson)
                      /\ pc'[c] = "receive"
                 ELSE /\ stats'[c] = [stats[c] EXCEPT
                            !.closed = TRUE,
                            !.close_reason = stats'[c].close_reason]
                      /\ stats'[c].close_reason \in
                            {Some("error:" \o e) : e \in SendFaults \cup {PeerGone}}
                      /\ pc'[c] = "closing"

\* C7 amended, of every step: as C7, the connection staying open provided the
\* send of the ack returns.
C7_Amended == [][C7_AmendedStep]_vars

\* C7 witness: after an init and a frame, a malformed text has been acknowledged
\* and the connection reads again, open, its init and counters kept.
C7_Witness ==
    \E c \in DOMAIN stats :
        /\ Len(received[c]) = 3
        /\ received[c][2] = BytesMsg(3)
        /\ Malformed(received[c][3])
        /\ pc[c] = "receive"
        /\ ~stats[c].closed
        /\ stats[c].init # None
        /\ stats[c].total_bytes = 3
        /\ stats[c].frames_received = 1
        /\ delivered[c] = << AckConnected, AckInitOk, AckNonJson >>

\* C8: a text message that parses but has no "type" equal to "init", whatever
\* its parsed shape, has exactly one "ingest:unknown_text" sent for it, changes
\* only last_message_at and does not terminate the connection.
C8_UnknownTextStep ==
    \A c \in DOMAIN stats :
        \A m \in Messages :
            (ParsedOther(m) /\ Receives(c, m))
            => /\ OnlyTouched(c)
               /\ ~stats'[c].closed
               /\ pc'[c] = "send_ack"
               /\ NewAcks(c) = << AckUnknownText >>

\* C8, of every step: a parsed text that is no init gets one
\* "ingest:unknown_text", changes only last_message_at, terminates nothing.
C8_UnknownText == [][C8_UnknownTextStep]_vars

\* C9: a well-formed init message, received at any point, sets init to exactly
\* its payload (nothing of an earlier init survives), leaves total_bytes and
\* frames_received unchanged and has exactly one "ingest:init:ok" sent.
C9_InitStep ==
    \A c \in DOMAIN stats :
        \A m \in Messages :
            (ParsedInit(m) /\ Receives(c, m))
            => /\ stats'[c] = [stats[c] EXCEPT
                      !.init = Some(JsonLoads(m.text[1]).value),
                      !.last_message_at = Some(now)]
               /\ NewAcks(c) = << AckInitOk >>

\* C9, of every step: a well-formed init replaces the stored init, leaves the
\* counters and gets one "ingest:init:ok".
C9_InitReplaces == [][C9_InitStep]_vars

\* C9 witness: after a frame, a second, different init has replaced the first:
\* the stored payload has the second's keys only, the counters are the frame's.
C9_Witness ==
    \E c \in DOMAIN stats :
        /\ received[c] = << BytesMsg(3), TextMsg(TextInitA), TextMsg(TextInitB) >>
        /\ stats[c].init = Some(JsonDict({<<"type", "\"init\"">>, <<"timeslice_ms", "500">>}))
        /\ stats[c].total_bytes = 3
        /\ stats[c].frames_received = 1
        /\ acks[c] = << AckConnected, AckInitOk, AckInitOk >>

\* C10: closed goes from false to true at most once and never back,
\* close_reason is written once, at that transition, and a closed record never
\* changes again, whatever arrives on the transport; no record is dropped.
C10_ClosedStep ==
    \A c \in DOMAIN stats :
        /\ c \in DOMAIN stats'
        /\ stats[c].closed => stats'[c] = stats[c]
        /\ stats'[c].closed # stats[c].closed
           => stats[c].close_reason = None /\ stats'[c].close_reason # None
        /\ stats'[c].close_reason # stats[c].close_reason
           => ~stats[c].closed /\ stats'[c].closed

\* C10, of every step: closed is set at most once, with close_reason, and a
\* closed record never changes.
C10_ClosedOnce == [][C10_ClosedStep]_vars

\* C10 witness: a record closed by a disconnect, and a message that reached
\* some stopped connection afterwards.
C10_Witness ==
    \E c \in DOMAIN stats :
        /\ stats[c].closed
        /\ stats[c].close_reason # None
        /\ pc[c] = "done"
        /\ gone[c]
        /\ unread > 0

----------------------------------------------------------------------------
\* C11: once the client of an accepted connection has disconnected, the task
\* eventually stops reading and the record eventually has closed = true. A task
\* that has stopped never writes again, so a stopped task whose client is gone
\* must have left its record closed.
C11_GoneEndsClosed ==
    \A c \in DOMAIN stats : (gone[c] /\ Stopped(c)) => stats[c].closed

\* The two halves of C11 as temporal formulas, for SpecFair.
C11_EventuallyStops == \A c \in {"c1"} : gone[c] ~> Stopped(c)
C11_EventuallyClosed ==
    \A c \in {"c1"} : gone[c] ~> (c \in DOMAIN stats /\ stats[c].closed)

----------------------------------------------------------------------------
\* C12: the mapping the stats query returned is an independent copy taken at
\* call time: as long as the caller holds it, no step changes what is in it.
C12_ReturnedStep ==
    (returned # None /\ returned' = returned)
        => Contents(returned[1])' = Contents(returned[1])

C12_ReturnedIsCopy == [][C12_ReturnedStep]_vars

----------------------------------------------------------------------------
\* C13: a stats query never observes a torn record: every record read has the
\* counters of a whole number of processed frames (a prefix of what the
\* connection received), and closed = true exactly when close_reason is set.
WholeFrames(c, rec) ==
    \E k \in 0..Len(received[c]) :
        /\ rec.frames_received = FramesIn(SubSeq(received[c], 1, k))
        /\ rec.total_bytes = SumBytes(SubSeq(received[c], 1, k))

Untorn(c, rec) ==
    /\ WholeFrames(c, rec)
    /\ rec.closed <=> rec.close_reason # None

C13_NoTornRead ==
    seen # None => \A c \in DOMAIN seen[1] : Untorn(c, seen[1][c])

----------------------------------------------------------------------------
\* C14: the registry only grows. A record once inserted is never removed and
\* never replaced by a fresh one, whatever any connection does, and every read
\* of a stats query result has an entry for every connection accepted so far,
\* the closed ones included.
Accepted == {c \in Conns : acks[c] # << >>}

Fresh(rec) ==
    /\ rec.total_bytes = 0 /\ rec.frames_received = 0
    /\ rec.init = None /\ rec.last_message_at = None
    /\ ~rec.closed /\ rec.close_reason = None

C14_GrowsStep ==
    /\ \A c \in DOMAIN stats :
          /\ c \in DOMAIN stats'
          /\ stats'[c].started_at = stats[c].started_at
          /\ stats'[c].remote = stats[c].remote
          /\ ~Fresh(stats[c]) => ~Fresh(stats'[c])
    /\ Accepted' \subseteq DOMAIN stats'
    /\ (seen' # seen) => DOMAIN seen'[1] = Accepted'

C14_OnlyGrows == [][C14_GrowsStep]_vars

\* Both connections were accepted, one has ended and is closed, and a stats
\* query read after that shows both.
C14_Witness ==
    /\ seen # None
    /\ DOMAIN seen[1] = Conns
    /\ \E c \in Conns : seen[1][c].closed /\ pc[c] = "done"
    /\ \E c \in Conns : ~seen[1][c].closed /\ seen[1][c].frames_received > 0

----------------------------------------------------------------------------
\* C15: a binary frame whose append to the debug dump fails is accounted for
\* exactly like one whose append succeeds: both counters are incremented, the
\* acknowledgement of every 20th frame is sent, the connection stays open and
\* closed and close_reason are untouched.
\* The step is stated for both outcomes of the append at once: the dump either
\* keeps its contents (the append failed) or gains the frame, and the rest of
\* the step is the same.
C15_SinkStep ==
    \A c \in DOMAIN stats : \A m \in {BytesMsg(n) : n \in LongFrameLens \cup FrameLens} :
        Receives(c, m) =>
            /\ dump' \in {dump, DumpAppend(dump, c, m.bytes[1], TRUE)}
            /\ stats'[c].total_bytes = stats[c].total_bytes + m.bytes[1]
            /\ stats'[c].frames_received = stats[c].frames_received + 1
            /\ stats'[c].closed = FALSE /\ stats'[c].close_reason = None
            /\ stats'[c].init = stats[c].init
            /\ NewAcks(c) = IF stats'[c].frames_received % AckEvery = 0
                             THEN <<FramesAck(stats'[c].frames_received)>>
                             ELSE << >>
            /\ pc'[c] = IF NewAcks(c) = << >> THEN "receive" ELSE "send_ack"

C15_SinkFailureIgnored == [][C15_SinkStep]_vars

\* Twenty frames were counted and the twentieth acknowledged although its append
\* failed, as did some earlier ones while others succeeded.
C15_Witness ==
    /\ pc["c1"] = "send_ack"
    /\ stats["c1"].frames_received = AckEvery
    /\ acks["c1"][Len(acks["c1"])] = FramesAck(AckEvery)
    /\ ~stats["c1"].closed
    /\ dump.bytes["c1"] > 0
    /\ dump.bytes["c1"] < stats["c1"].total_bytes

----------------------------------------------------------------------------
\* C16: the debug dump is safe for several connections: a step of one
\* connection (its accept, a frame, its closing) neither removes nor alters the
\* bytes that another, still open connection has already appended.
Open(c) == c \in DOMAIN stats /\ pc[c] \in {"receive", "send_ack"} /\ ~stats[c].closed

StepOfOther(c) == pc'[c] = pc[c] /\ received'[c] = received[c] /\ pc' # pc

C16_DumpStep ==
    \A c \in Conns :
        (Open(c) /\ StepOfOther(c)) => dump'.bytes[c] = dump.bytes[c]

C16_DumpKeepsOthers == [][C16_DumpStep]_vars

----------------------------------------------------------------------------
\* C17: total_bytes and frames_received of a record never decrease and change
\* only in a binary-frame step of that connection's own handler; every other
\* step leaves them as they are, and no step of one connection's handler writes
\* a field of another connection's record.
OwnStep(c) ==
    /\ pc'[c] # pc[c] \/ received'[c] # received[c]
    /\ \A d \in Conns \ {c} : pc'[d] = pc[d] /\ received'[d] = received[d]

OwnFrameStep(c) ==
    /\ OwnStep(c)
    /\ Len(received'[c]) = Len(received[c]) + 1
    /\ IsFrame(received'[c][Len(received'[c])])

C17_CountersStep ==
    \A c \in DOMAIN stats :
        /\ stats'[c].total_bytes >= stats[c].total_bytes
        /\ stats'[c].frames_received >= stats[c].frames_received
        /\ (\/ stats'[c].total_bytes # stats[c].total_bytes
            \/ stats'[c].frames_received # stats[c].frames_received) => OwnFrameStep(c)
        /\ stats'[c] # stats[c] => OwnStep(c)

C17_CountersOwnFrames == [][C17_CountersStep]_vars

\* One connection has counted a frame and then stored an init message while the
\* other, accepted in between, was closed by a disconnect without any frame.
C17_Witness ==
    /\ DOMAIN stats = Conns
    /\ Len(received["c1"]) = 2
    /\ IsFrame(received["c1"][1]) /\ IsText(received["c1"][2])
    /\ stats["c1"].frames_received = 1 /\ stats["c1"].total_bytes = 3
    /\ stats["c1"].init # None
    /\ stats["c2"].closed /\ stats["c2"].frames_received = 0

----------------------------------------------------------------------------
\* C18: each accepted connection is sent "ingest:connected" exactly once; it is
\* sent only when the connection's record (counters zero, closed = false, init
\* unset) is in the registry, and it precedes every other acknowledgement of
\* the connection.
SendsConnected(c) == \E i \in 1..Len(NewAcks(c)) : NewAcks(c)[i] = AckConnected

C18_ConnectedStep ==
    \A c \in Conns :
        /\ SendsConnected(c) =>
              /\ acks[c] = << >>
              /\ NewAcks(c) = <<AckConnected>>
              /\ c \in DOMAIN stats'
              /\ Fresh(stats'[c])
        /\ c \in DOMAIN stats' =>
              /\ acks'[c] # << >>
              /\ acks'[c][1] = AckConnected
              /\ \A i \in 2..Len(acks'[c]) : acks'[c][i] # AckConnected

C18_ConnectedFirstOnce == [][C18_ConnectedStep]_vars

\* The connection was greeted, then acknowledged an init message and a text of
\* another kind.
C18_Witness ==
    /\ "c1" \in DOMAIN stats
    /\ acks["c1"] = <<AckConnected, AckInitOk, AckUnknownText>>
    /\ delivered["c1"] = acks["c1"]

----------------------------------------------------------------------------
\* C19: within one connection the messages are processed in arrival order,
\* none skipped: the acknowledgements sent are exactly the in-order image of
\* the messages received (one per text message, one per 20th frame, none
\* otherwise), and the acknowledgement of a message has been sent before the
\* next message is read.
TextAck(m) ==
    IF Malformed(m) THEN AckNonJson
    ELSE IF ParsedInit(m) THEN AckInitOk
    ELSE AckUnknownText

RECURSIVE AckImage(_, _)
AckImage(h, n) ==
    IF h = << >> THEN << >>
    ELSE IF IsText(Head(h)) THEN <<TextAck(Head(h))>> \o AckImage(Tail(h), n)
    ELSE IF IsFrame(Head(h))
    THEN (IF (n + 1) % AckEvery = 0 THEN <<FramesAck(n + 1)>> ELSE << >>)
         \o AckImage(Tail(h), n + 1)
    ELSE AckImage(Tail(h), n)

C19_InOrderImage ==
    \A c \in DOMAIN stats :
        /\ acks[c] = <<AckConnected>> \o AckImage(received[c], 0)
        /\ pc[c] = "receive" => delivered[c] = acks[c]

----------------------------------------------------------------------------
\* C20: a connection suspended in receive() or in a send_text to a slow client
\* never prevents progress elsewhere: in every such state the handler of any
\* other open connection can process whatever message comes next, or finish
\* the send it is in, and a stats query can return.
Suspended(c) == pc[c] \in {"send_connected", "receive", "send_ack"}

C20_NoStall ==
    \A c \in Conns :
        Suspended(c) =>
            /\ ENABLED IngestStats
            /\ returned # None => ENABLED ReadResult
            /\ \A d \in Conns \ {c} :
                  /\ (pc[d] = "receive" /\ ~gone[d]) =>
                        \A m \in Messages \ {DisconnectMsg} :
                            ENABLED ReceiveMessage(d, m, TRUE)
                  /\ (pc[d] = "receive" /\ gone[d]) =>
                        ENABLED ReceiveMessage(d, DisconnectMsg, TRUE)
                  /\ pc[d] = "send_ack" => ENABLED SendAckOk(d)
                  /\ pc[d] = "send_connected" => ENABLED SendConnectedOk(d, TRUE)

\* The first connection is still inside the send_text of its first message's
\* acknowledgement; a stats query read after that message arrived shows the
\* second connection without frames, and the second has counted a frame since.
C20_Witness ==
    /\ pc["c1"] = "send_ack" /\ Len(received["c1"]) = 1
    /\ seen # None
    /\ DOMAIN seen[1] = Conns
    /\ seen[1]["c1"].last_message_at # None
    /\ seen[1]["c2"].frames_received = 0
    /\ stats["c2"].frames_received = 1
    /\ pc["c2"] = "receive"

----------------------------------------------------------------------------
\* C21: with a clock that never goes back, last_message_at is unset until the
\* first message is received on the connection; afterwards it is the receipt
\* time of the most recently received message of any kind, and never earlier
\* than started_at, which is written at creation and never changed.
C21_ClockStep ==
    /\ now' >= now
    /\ \A c \in DOMAIN stats' :
          /\ received'[c] = << >> => stats'[c].last_message_at = None
          /\ stats'[c].last_message_at # None =>
                stats'[c].last_message_at[1] >= stats'[c].started_at
          /\ c \notin DOMAIN stats => stats'[c].started_at = now
    /\ \A c \in DOMAIN stats :
          /\ stats'[c].started_at = stats[c].started_at
          /\ IF received'[c] # received[c]
             THEN stats'[c].last_message_at = Some(now)
             ELSE stats'[c].last_message_at = stats[c].last_message_at

C21_LastMessageAt == [][C21_ClockStep]_vars

\* Accepted at time 0, a frame received at time 1 and an event carrying
\* neither text nor bytes at time 2.
C21_Witness ==
    /\ "c1" \in DOMAIN stats
    /\ received["c1"] = <<BytesMsg(3), EmptyMsg>>
    /\ stats["c1"].started_at = 0
    /\ stats["c1"].last_message_at = Some(MaxTime)
    /\ now = MaxTime

----------------------------------------------------------------------------
\* C22: acknowledgements never run ahead of the registry. When
\* "ingest:frames=N" is sent the record's frames_received is N, and it is at
\* least N ever after; when "ingest:init:ok" is sent the record's init is the
\* payload being acknowledged; and the completion or failure of the send
\* changes neither.
C22_AckStep ==
    \A c \in DOMAIN stats' :
        /\ \A i \in 1..Len(NewAcks(c)) :
              /\ IsFramesAck(NewAcks(c)[i]) =>
                    NewAcks(c)[i] = FramesAck(stats'[c].frames_received)
              /\ NewAcks(c)[i] = AckInitOk =>
                    /\ IsText(received'[c][Len(received'[c])])
                    /\ stats'[c].init =
                          Some(JsonLoads(received'[c][Len(received'[c])].text[1]).value)
        /\ \A i \in 1..Len(acks'[c]) :
              IsFramesAck(acks'[c][i]) =>
                  \E n \in 1..stats'[c].frames_received : acks'[c][i] = FramesAck(n)
        /\ (c \in DOMAIN stats /\ received'[c] = received[c]) =>
              /\ stats'[c].init = stats[c].init
              /\ stats'[c].frames_received = stats[c].frames_received
              /\ stats'[c].total_bytes = stats[c].total_bytes

C22_AcksNotAhead == [][C22_AckStep]_vars

\* The init message and twenty frames were received; the send of
\* "ingest:frames=20" failed, and the record shows the init payload and the
\* twenty frames all the same.
C22_Witness ==
    /\ "c1" \in DOMAIN stats
    /\ received["c1"] # << >>
    /\ received["c1"][1] = TextMsg(TextInitA)
    /\ acks["c1"] = <<AckConnected, AckInitOk, FramesAck(AckEvery)>>
    /\ delivered["c1"] = <<AckConnected, AckInitOk>>
    /\ pc["c1"] = "done"
    /\ stats["c1"].closed
    /\ stats["c1"].frames_received = AckEvery
    /\ stats["c1"].init = Some(JsonLoads(TextInitA).value)

----------------------------------------------------------------------------
\* C23: the classification of a received message is total and exclusive. A
\* message with a text part is handled as a control message only, also when it
\* carries bytes: the counters and the dump stay as they are and no frames
\* acknowledgement is sent. A message with bytes only is handled as a binary
\* frame only: it is counted, init stays and no text acknowledgement is sent.
\* A message that is no disconnect and carries neither changes only
\* last_message_at, sends nothing and leaves the connection open.
CountersKept(c) ==
    /\ stats'[c].total_bytes = stats[c].total_bytes
    /\ stats'[c].frames_received = stats[c].frames_received

C23_ClassifyStep ==
    \A c \in DOMAIN stats : \A m \in Messages :
        Receives(c, m) =>
            /\ IsText(m) =>
                  /\ CountersKept(c)
                  /\ dump' = dump
                  /\ \A i \in 1..Len(NewAcks(c)) : ~IsFramesAck(NewAcks(c)[i])
            /\ IsFrame(m) =>
                  /\ stats'[c].total_bytes = stats[c].total_bytes + m.bytes[1]
                  /\ stats'[c].frames_received = stats[c].frames_received + 1
                  /\ stats'[c].init = stats[c].init
                  /\ ~stats'[c].closed
                  /\ \A i \in 1..Len(NewAcks(c)) : IsFramesAck(NewAcks(c)[i])
            /\ m = EmptyMsg =>
                  /\ OnlyTouched(c)
                  /\ NewAcks(c) = << >>
                  /\ pc'[c] = "receive"
            /\ Cardinality({k \in {"text", "frame", "neither", "disconnect"} :
                    \/ k = "text" /\ IsText(m)
                    \/ k = "frame" /\ IsFrame(m)
                    \/ k = "neither" /\ m = EmptyMsg
                    \/ k = "disconnect" /\ m = DisconnectMsg}) = 1

C23_ClassifiedOnce == [][C23_ClassifyStep]_vars

\* A text that carries bytes as well, then a message with neither part, then a
\* frame: one text acknowledgement, and the counters of the one frame.
C23_Witness ==
    /\ "c1" \in DOMAIN stats
    /\ received["c1"] = <<BothMsg(TextBad, 3), EmptyMsg, BytesMsg(3)>>
    /\ acks["c1"] = <<AckConnected, AckNonJson>>
    /\ stats["c1"].total_bytes = 3
    /\ stats["c1"].frames_received = 1
    /\ pc["c1"] = "receive"
    /\ ~stats["c1"].closed

====
